---- MODULE Spec2Model ----
(***************************************************************************)
(* State-machine model of the kjellbergmap 3D viewer (viewer.js, kept as   *)
(* src/unnamed/part_000): startup, the asynchronous GLB load and its       *)
(* callbacks, material normalisation, camera auto-framing, reset view,     *)
(* resize and the render loop; and of the 2D map page's initialiser        *)
(* (src/main.js, init), which reads the tile metadata and creates the map. *)
(* The two scripts belong to different pages and share no state.           *)
(*                                                                         *)
(* Numbers.  JavaScript numbers are modelled as fixed-point integers in    *)
(* thousandths (1.0 is 1000); a division truncates.  Math.tan is a table.  *)
(* Optional values (null / undefined) are sequences of length 0 or 1.      *)
(*                                                                         *)
(* OrbitControls is the three.js class the viewer instantiates with        *)
(* enableDamping = true and dampingFactor = 0.07; its update() applies     *)
(* dampingFactor of the pending rotate / pan deltas to the camera and the  *)
(* target and keeps the rest for the next call.  Rotation about the target *)
(* is modelled in the small-angle limit, as a shift of the camera along x. *)
(***************************************************************************)
EXTENDS Integers, Sequences, FiniteSets, TLC

VARIABLES
  env,                 \* what the page and the three.js build provide
  pc,                  \* "boot" before the top-level script ran, then "running"
  camera,              \* <<>> or <<[fov, aspect, near, far, position]>>
  controls,            \* <<>> or <<[target, sphericalDelta, panOffset]>>
  modelGroup,          \* children of modelGroup: a sequence of models
  initialCameraState,  \* <<>> or <<[position, target]>>
  loadingEl,           \* <<>> or <<[text, display, background]>>
  alerts,              \* messages shown with alert()
  loader,              \* [started, inFlight]: loads started / still pending
  listeners,           \* [resize, reset]: registered event listeners
  rafPending,          \* a requestAnimationFrame callback is scheduled
  viewport,            \* <<clientWidth, clientHeight>> of the container
  rendererSize,        \* <<>> or <<<<w, h>>>>: size given to the renderer
  navCount,            \* navigation inputs so far (bounded by MaxNav)
  lastOp,              \* the handler that ran last
  \* the 2D map page (main.js)
  site,                \* what the server gives for each of tryPaths
  mapPc,               \* where init() stands: "boot", "fetching", "reading",
                       \* "created" (it returned), "rejected" (it threw)
  tryIndex,            \* index in tryPaths of the path being tried
  fetched,             \* the paths fetch() was called with, in order
  xml,                 \* <<>> or <<document>>
  bounds,              \* <<>> (undefined) or <<[sw, ne]>>
  minZoom,
  maxZoom,
  map                  \* <<>> or <<[center, zoom, minZoom, maxZoom]>>

viewerVars == <<env, pc, camera, controls, modelGroup, initialCameraState, loadingEl,
                alerts, loader, listeners, rafPending, viewport, rendererSize,
                navCount, lastOp>>

mapVars == <<site, mapPc, tryIndex, fetched, xml, bounds, minZoom, maxZoom, map>>

vars == <<viewerVars, mapVars>>

----------------------------------------------------------------------------
(* Bounds of the model *)

MaxNav == 2          \* navigation inputs per run
ProgressTotal == 1   \* bytes of the asset when its size is known

----------------------------------------------------------------------------
(* Program constants, in thousandths where they are lengths *)

CameraFov == 45          \* new PerspectiveCamera(45, ...)
CameraNear == 100        \* 0.1
CameraFar == 10000000    \* 10000
DampingPct == 7          \* controls.dampingFactor = 0.07
MarginTenths == 15       \* distance * 1.5
Offset == 500            \* + 0.5
NearMin == 10            \* Math.max(0.01, ...)
NearDivisor == 1000      \* distance / 1000
FarFactor == 100         \* distance * 100

Scale == 10 ^ 3          \* thousandths per unit

DefaultMinZoom == 0      \* let minZoom = 0
DefaultMaxZoom == 23     \* let maxZoom = 23
FallbackMinZoom == 5     \* minZoom = 5 in the catch block
FallbackMaxZoom == 23    \* maxZoom = 23 in the catch block
MapZoom == 18            \* zoom: 18

NULL == <<>>
Some(v) == <<v>>

Vec3(x, y, z) == [x |-> x, y |-> y, z |-> z]
Max2(a, b) == IF a >= b THEN a ELSE b
Max3(a, b, c) == Max2(a, Max2(b, c))

\* a / b for b > 0, truncated toward zero
Div(a, b) == IF a >= 0 THEN a \div b ELSE -((-a) \div b)

----------------------------------------------------------------------------
(* Text of the status element *)

MsgNoOrbit == "OrbitControls not available in this build of three.js."
MsgNoLoader == "GLTFLoader not available in this build of three.js."
MsgNoScene == "Loaded file contains no scene."
MsgLoadFailed == "Failed to load 3D model. See console for details."
ErrorMessages == {MsgNoOrbit, MsgNoLoader, MsgNoScene, MsgLoadFailed}

\* showError(msg): the status element when there is one, else alert(msg)
ShowErrorEl(el, msg) ==
  IF el # NULL
    THEN Some([text |-> msg, display |-> "block", background |-> "alert"])
    ELSE el

ShowErrorAlerts(el, al, msg) == IF el # NULL THEN al ELSE al \cup {msg}

----------------------------------------------------------------------------
(* OrbitControls.update() with damping enabled *)

Damp(d) == Div(d * DampingPct, 100)

ControlsUpdateCamera(cam, ctl) ==
  [cam EXCEPT !.position.x = @ + Damp(ctl.sphericalDelta) + Damp(ctl.panOffset)]

ControlsUpdateControls(ctl) ==
  [ctl EXCEPT !.target.x = @ + Damp(ctl.panOffset),
              !.sphericalDelta = @ - Damp(ctl.sphericalDelta),
              !.panOffset = @ - Damp(ctl.panOffset)]

----------------------------------------------------------------------------
(* Materials.  A texture records which of the two colour-space properties  *)
(* its three.js release gives it ('colorSpace' in tex, 'encoding' in tex)  *)
(* and their values; a property a texture does not have reads "absent".    *)

\* THREE.SRGBColorSpace, THREE.sRGBEncoding and THREE.SRGBEncoding as the
\* build defines them.  No three.js release defines THREE.SRGBEncoding (the
\* constant is spelled sRGBEncoding), so reading it yields undefined.
ThreeSRGBColorSpace(three) == IF three.SRGBColorSpace THEN "srgb" ELSE "undefined"
ThreesRGBEncoding(three) == IF three.sRGBEncoding THEN "sRGBEncoding" ELSE "undefined"
ThreeSRGBEncoding(three) == "undefined"

\* if ('colorSpace' in tex) tex.colorSpace = cs; else if ('encoding' in tex) tex.encoding = enc;
TagTexture(tex, cs, enc) ==
  IF tex.hasColorSpace THEN [tex EXCEPT !.colorSpace = cs]
  ELSE IF tex.hasEncoding THEN [tex EXCEPT !.encoding = enc]
  ELSE tex

\* the base-colour slot with flipY inverted instead of cleared
AdjustMapFlipsY(slot, three) ==
  IF slot = NULL THEN slot
  ELSE Some([TagTexture(slot[1], ThreeSRGBColorSpace(three), ThreesRGBEncoding(three))
               EXCEPT !.flipY = ~@])

AdjustMap(slot, three) ==
  IF slot = NULL THEN slot
  ELSE Some([TagTexture(slot[1], ThreeSRGBColorSpace(three), ThreesRGBEncoding(three))
               EXCEPT !.flipY = FALSE])

AdjustEmissiveMap(slot, three) ==
  IF slot = NULL THEN slot
  ELSE Some(TagTexture(slot[1], ThreeSRGBColorSpace(three), ThreeSRGBEncoding(three)))

AdjustLightMap(slot, three) ==
  IF slot = NULL THEN slot
  ELSE Some(TagTexture(slot[1], ThreeSRGBColorSpace(three), ThreeSRGBEncoding(three)))

adjustMaterial(mat, three) ==
  [map |-> AdjustMap(mat.map, three),
   emissiveMap |-> AdjustEmissiveMap(mat.emissiveMap, three),
   lightMap |-> AdjustLightMap(mat.lightMap, three),
   needsUpdate |-> TRUE]

\* model.traverse(...): every mesh's material, or each material of its list
AdjustMesh(mesh, three) == [i \in 1..Len(mesh) |-> adjustMaterial(mesh[i], three)]

TraverseModel(model, three) ==
  [model EXCEPT !.meshes = [i \in 1..Len(model.meshes) |-> AdjustMesh(model.meshes[i], three)]]

----------------------------------------------------------------------------
(* Auto-framing *)

\* Math.tan(fov / 2) for camera.fov in degrees, in thousandths
TanHalfFov(fov) ==
  CASE fov = 45 -> 414
    [] fov = 60 -> 577
    [] fov = 90 -> 1000
    [] fov = 120 -> 1732

\* new THREE.Box3().setFromObject(modelGroup): the box of the group's child;
\* a group without geometry gives the empty box
GroupBox(group) == IF group = <<>> THEN NULL ELSE group[1].box

\* Box3.getSize / Box3.getCenter: both are (0, 0, 0) for the empty box
BoxSize(box) ==
  IF box = NULL THEN Vec3(0, 0, 0)
  ELSE Vec3(box[1].max.x - box[1].min.x,
            box[1].max.y - box[1].min.y,
            box[1].max.z - box[1].min.z)

BoxCenter(box) ==
  IF box = NULL THEN Vec3(0, 0, 0)
  ELSE Vec3(Div(box[1].min.x + box[1].max.x, 2),
            Div(box[1].min.y + box[1].max.y, 2),
            Div(box[1].min.z + box[1].max.z, 2))

MaxDim(group) ==
  LET size == BoxSize(GroupBox(group)) IN Max3(size.x, size.y, size.z)

\* the distance without the + 0.5
FrameDistanceNoOffset(maxDim, fov) ==
  Div(Div(maxDim * Scale, 2 * TanHalfFov(fov)) * MarginTenths, 10)

\* the distance without the * 1.5
FrameDistanceNoMargin(maxDim, fov) ==
  Div(maxDim * Scale, 2 * TanHalfFov(fov)) + Offset

\* distance = maxDim / (2 * Math.tan(fov / 2)); distance = distance * 1.5 + 0.5
FrameDistance(maxDim, fov) ==
  Div(Div(maxDim * Scale, 2 * TanHalfFov(fov)) * MarginTenths, 10) + Offset

\* near without the Math.max(0.01, ...)
FrameNearUnclamped(distance) == Div(distance, NearDivisor)

FrameNear(distance) == Max2(NearMin, Div(distance, NearDivisor))
FrameFar(distance) == distance * FarFactor

\* frameModel(object) that saves the initial state before it frames
frameModelSnapshotFirst(cam, ctl, group) ==
  LET center == BoxCenter(GroupBox(group))
      distance == FrameDistance(MaxDim(group), cam.fov)
      framed == [cam EXCEPT !.position = Vec3(center.x, center.y, center.z + distance),
                            !.near = FrameNear(distance),
                            !.far = FrameFar(distance)]
      aimed == [ctl EXCEPT !.target = center]
  IN [camera |-> ControlsUpdateCamera(framed, aimed),
      controls |-> ControlsUpdateControls(aimed),
      initial |-> [position |-> cam.position, target |-> ctl.target]]

\* frameModel(object): the camera, the controls and the saved initial state
frameModel(cam, ctl, group) ==
  LET center == BoxCenter(GroupBox(group))
      distance == FrameDistance(MaxDim(group), cam.fov)
      framed == [cam EXCEPT !.position = Vec3(center.x, center.y, center.z + distance),
                            !.near = FrameNear(distance),
                            !.far = FrameFar(distance)]
      aimed == [ctl EXCEPT !.target = center]
      cam2 == ControlsUpdateCamera(framed, aimed)
      ctl2 == ControlsUpdateControls(aimed)
  IN [camera |-> cam2,
      controls |-> ctl2,
      initial |-> [position |-> cam2.position, target |-> ctl2.target]]

\* resetView() with controls.update() moved in front of the guard
resetViewUpdatesFirst(cam, ctl, initial) ==
  IF initial = NULL
    THEN [camera |-> ControlsUpdateCamera(cam, ctl),
          controls |-> ControlsUpdateControls(ctl)]
  ELSE LET posed == [cam EXCEPT !.position = initial[1].position]
           aimed == [ctl EXCEPT !.target = initial[1].target]
       IN [camera |-> ControlsUpdateCamera(posed, aimed),
           controls |-> ControlsUpdateControls(aimed)]

\* resetView(): returns at once while no initial state is saved; otherwise
\* copies it onto the camera and the target, then controls.update()
resetView(cam, ctl, initial) ==
  IF initial = NULL THEN [camera |-> cam, controls |-> ctl]
  ELSE LET posed == [cam EXCEPT !.position = initial[1].position]
           aimed == [ctl EXCEPT !.target = initial[1].target]
       IN [camera |-> ControlsUpdateCamera(posed, aimed),
           controls |-> ControlsUpdateControls(aimed)]

\* onWindowResize() with the ratio inverted
onWindowResizeInverted(cam, size) == [cam EXCEPT !.aspect = Div(size[2] * Scale, size[1])]

\* onWindowResize(): camera.aspect = w / h
onWindowResize(cam, size) == [cam EXCEPT !.aspect = Div(size[1] * Scale, size[2])]

----------------------------------------------------------------------------
(* The 2D map page before its init() is called *)

MapNotStarted ==
  /\ mapPc = "boot"
  /\ tryIndex = 0
  /\ fetched = <<>>
  /\ xml = NULL
  /\ bounds = NULL
  /\ minZoom = DefaultMinZoom
  /\ maxZoom = DefaultMaxZoom
  /\ map = NULL

----------------------------------------------------------------------------
(* Inputs *)

\* three.js builds: r152+ defines both constants, r162+ dropped sRGBEncoding,
\* releases before SRGBColorSpace define only sRGBEncoding
Builds == {[SRGBColorSpace |-> TRUE, sRGBEncoding |-> TRUE],
           [SRGBColorSpace |-> TRUE, sRGBEncoding |-> FALSE],
           [SRGBColorSpace |-> FALSE, sRGBEncoding |-> TRUE]}

\* the page the viewer ships in loads one three.js build; the capability
\* scripts and the two page elements may each be missing
PageBuild == [SRGBColorSpace |-> TRUE, sRGBEncoding |-> TRUE]

Envs == [hasOrbit : BOOLEAN, hasLoader : BOOLEAN, hasLoadingEl : BOOLEAN,
         hasResetBtn : BOOLEAN, three : {PageBuild}]

\* one rotate / pan input, in thousandths
NavDeltas == {15}

Sizes == {<<800, 600>>, <<400, 300>>, <<300, 400>>}

Texture(hasCs, hasEnc, cs, enc, flip) ==
  [hasColorSpace |-> hasCs, hasEncoding |-> hasEnc,
   colorSpace |-> cs, encoding |-> enc, flipY |-> flip]

\* every texture: with colorSpace, with encoding, with both, with neither
Textures ==
  {Texture(TRUE, FALSE, cs, "absent", f) : cs \in {"", "srgb"}, f \in BOOLEAN}
  \cup {Texture(FALSE, TRUE, "absent", enc, f) :
          enc \in {"LinearEncoding", "sRGBEncoding"}, f \in BOOLEAN}
  \cup {Texture(TRUE, TRUE, "", "LinearEncoding", f) : f \in BOOLEAN}
  \cup {Texture(FALSE, FALSE, "absent", "absent", f) : f \in BOOLEAN}

Slots == {NULL} \cup {Some(t) : t \in Textures}

Materials == [map : Slots, emissiveMap : Slots, lightMap : Slots, needsUpdate : BOOLEAN]

Material(m, e, l) == [map |-> m, emissiveMap |-> e, lightMap |-> l, needsUpdate |-> FALSE]

Box(lo, hi) == Some([min |-> lo, max |-> hi])

SampleMesh ==
  << Material(Some(Texture(TRUE, FALSE, "", "absent", TRUE)),
              Some(Texture(FALSE, TRUE, "absent", "LinearEncoding", TRUE)),
              NULL),
     Material(Some(Texture(FALSE, FALSE, "absent", "absent", TRUE)),
              NULL,
              Some(Texture(FALSE, TRUE, "absent", "LinearEncoding", FALSE))) >>

\* scene graphs: a single point without meshes, a large flat model
Models ==
  {[box |-> Box(Vec3(1000, 0, -1000), Vec3(1000, 0, -1000)), meshes |-> <<>>],
   [box |-> Box(Vec3(0, 0, 0), Vec3(100000, 2000, 4000)), meshes |-> <<SampleMesh>>]}

\* what the loader hands to the success callback: gltf.scene, gltf.scenes
Gltfs ==
  {[scene |-> NULL, scenes |-> <<>>]}
  \cup {[scene |-> Some(m), scenes |-> <<m>>] : m \in Models}
  \cup {[scene |-> NULL, scenes |-> <<m>>] : m \in Models}

----------------------------------------------------------------------------
(* State after the module's top-level declarations (lines 6 to 12) *)

Init ==
  /\ env \in Envs
  /\ pc = "boot"
  /\ camera = NULL
  /\ controls = NULL
  /\ modelGroup = <<>>
  /\ initialCameraState = NULL
  /\ loadingEl = IF env.hasLoadingEl
                   THEN Some([text |-> "", display |-> "", background |-> ""])
                   ELSE NULL
  /\ alerts = {}
  /\ loader = [started |-> 0, inFlight |-> 0]
  /\ listeners = [resize |-> FALSE, reset |-> FALSE]
  /\ rafPending = FALSE
  /\ viewport = <<800, 600>>
  /\ rendererSize = NULL
  /\ navCount = 0
  /\ lastOp = "none"
  /\ site = <<>>
  /\ MapNotStarted

----------------------------------------------------------------------------
(* init() and loadGLBModel() *)

InitCamera(size) ==
  [fov |-> CameraFov, aspect |-> Div(size[1] * Scale, size[2]),
   near |-> CameraNear, far |-> CameraFar, position |-> Vec3(0, 5000, 10000)]

InitControls(e) ==
  IF e.hasOrbit
    THEN Some([target |-> Vec3(0, 0, 0), sphericalDelta |-> 0, panOffset |-> 0])
    ELSE NULL

\* loadGLBModel() is reached only with OrbitControls, and starts a load only
\* with GLTFLoader
InitLoadStarted(e) == e.hasOrbit /\ e.hasLoader

\* the message init() or loadGLBModel() passes to showError, if any
InitError(e) ==
  IF ~e.hasOrbit THEN Some(MsgNoOrbit)
  ELSE IF ~e.hasLoader THEN Some(MsgNoLoader)
  ELSE NULL

\* the listeners init() registers: it returns before them only when
\* OrbitControls is missing
InitListeners(e) ==
  IF e.hasOrbit THEN [resize |-> TRUE, reset |-> e.hasResetBtn]
  ELSE [resize |-> FALSE, reset |-> FALSE]

\* whether the status element, or an alert, shows msg as an error
ErrorShown(msg) ==
  IF loadingEl # NULL
    THEN /\ loadingEl[1].text = msg
         /\ loadingEl[1].display = "block"
         /\ loadingEl[1].background = "alert"
    ELSE msg \in alerts

\* animate() that schedules the next frame only while no error is shown
AnimateStopsOnError == ~(\E msg \in ErrorMessages : ErrorShown(msg))

\* animate(): requestAnimationFrame(animate) is its first statement
AnimateReschedules == TRUE

\* the top-level script: init(); animate();
Startup ==
  /\ pc = "boot"
  /\ pc' = "running"
  /\ camera' = Some(InitCamera(viewport))
  /\ rendererSize' = Some(viewport)
  /\ controls' = InitControls(env)
  /\ loader' = IF InitLoadStarted(env)
                 THEN [started |-> loader.started + 1, inFlight |-> loader.inFlight + 1]
                 ELSE loader
  /\ loadingEl' = IF InitError(env) = NULL THEN loadingEl
                  ELSE ShowErrorEl(loadingEl, InitError(env)[1])
  /\ alerts' = IF InitError(env) = NULL THEN alerts
               ELSE ShowErrorAlerts(loadingEl, alerts, InitError(env)[1])
  /\ listeners' = InitListeners(env)
  /\ rafPending' = AnimateReschedules
  /\ lastOp' = "init"
  /\ UNCHANGED <<env, modelGroup, initialCameraState, viewport, navCount>>
  /\ UNCHANGED mapVars

\* animate() when the saved initial state holds camera.position and
\* controls.target themselves instead of clones
AnimateAliasedSnapshot ==
  /\ pc = "running"
  /\ rafPending
  /\ rafPending' = AnimateReschedules
  /\ IF controls # NULL
       THEN /\ camera' = Some(ControlsUpdateCamera(camera[1], controls[1]))
            /\ controls' = Some(ControlsUpdateControls(controls[1]))
       ELSE UNCHANGED <<camera, controls>>
  /\ initialCameraState' =
       IF initialCameraState # NULL
         THEN Some([position |-> camera'[1].position, target |-> controls'[1].target])
         ELSE initialCameraState
  /\ lastOp' = "animate"
  /\ UNCHANGED <<env, pc, modelGroup, loadingEl, alerts,
                 loader, listeners, viewport, rendererSize, navCount>>
  /\ UNCHANGED mapVars

\* animate(), run as the frame callback
Animate ==
  /\ pc = "running"
  /\ rafPending
  /\ rafPending' = AnimateReschedules
  /\ IF controls # NULL
       THEN /\ camera' = Some(ControlsUpdateCamera(camera[1], controls[1]))
            /\ controls' = Some(ControlsUpdateControls(controls[1]))
       ELSE UNCHANGED <<camera, controls>>
  /\ lastOp' = "animate"
  /\ UNCHANGED <<env, pc, modelGroup, initialCameraState, loadingEl, alerts,
                 loader, listeners, viewport, rendererSize, navCount>>
  /\ UNCHANGED mapVars

----------------------------------------------------------------------------
(* The loader's callbacks *)

\* const p = xhr.total ? (xhr.loaded / xhr.total) * 100 : null;
\* p ? `Loading 3D model... ${p.toFixed(0)}%` : 'Loading 3D model...'
ProgressPercent(loaded, total) == (2 * loaded * 100 + total) \div (2 * total)

ProgressText(loaded, total) ==
  IF total # 0 /\ loaded # 0
    THEN "Loading 3D model... " \o ToString(ProgressPercent(loaded, total)) \o "%"
    ELSE "Loading 3D model..."

\* a progress callback the loader delivers whether or not the load has ended
OnProgressAfterSettled(loaded, total) ==
  /\ pc = "running"
  /\ loader.started > 0
  /\ loadingEl' = IF loadingEl # NULL
                    THEN Some([loadingEl[1] EXCEPT !.text = ProgressText(loaded, total)])
                    ELSE loadingEl
  /\ lastOp' = "progress"
  /\ UNCHANGED <<env, pc, camera, controls, modelGroup, initialCameraState, alerts,
                 loader, listeners, rafPending, viewport, rendererSize, navCount>>
  /\ UNCHANGED mapVars

OnProgress(loaded, total) ==
  /\ pc = "running"
  /\ loader.inFlight > 0
  /\ loadingEl' = IF loadingEl # NULL
                    THEN Some([loadingEl[1] EXCEPT !.text = ProgressText(loaded, total)])
                    ELSE loadingEl
  /\ lastOp' = "progress"
  /\ UNCHANGED <<env, pc, camera, controls, modelGroup, initialCameraState, alerts,
                 loader, listeners, rafPending, viewport, rendererSize, navCount>>
  /\ UNCHANGED mapVars

\* const model = gltf.scene || gltf.scenes?.[0];
SelectScene(gltf) ==
  IF gltf.scene # NULL THEN gltf.scene
  ELSE IF Len(gltf.scenes) > 0 THEN Some(gltf.scenes[1])
  ELSE NULL

\* modelGroup.clear()
ClearGroup(group) == <<>>

\* if (loadingEl) loadingEl.style.display = 'none';
HideLoading(el) == IF el # NULL THEN Some([el[1] EXCEPT !.display = "none"]) ELSE el

\* the success callback without the return after showError: the emptied
\* group is framed
OnLoadEmptyFallsThrough(gltf) ==
  /\ SelectScene(gltf) = NULL
  /\ LET group == ClearGroup(modelGroup)
         framed == frameModel(camera[1], controls[1], group)
     IN /\ modelGroup' = group
        /\ camera' = Some(framed.camera)
        /\ controls' = Some(framed.controls)
        /\ initialCameraState' = Some(framed.initial)
  /\ loadingEl' = ShowErrorEl(loadingEl, MsgNoScene)
  /\ alerts' = ShowErrorAlerts(loadingEl, alerts, MsgNoScene)
  /\ lastOp' = "loadEmpty"

\* the success callback when the file holds no scene
OnLoadEmpty(gltf) ==
  /\ SelectScene(gltf) = NULL
  /\ modelGroup' = ClearGroup(modelGroup)
  /\ loadingEl' = ShowErrorEl(loadingEl, MsgNoScene)
  /\ alerts' = ShowErrorAlerts(loadingEl, alerts, MsgNoScene)
  /\ lastOp' = "loadEmpty"
  /\ UNCHANGED <<camera, controls, initialCameraState>>

\* the success callback that attaches the scene and hides the status element,
\* leaving the materials and the camera for a later callback
OnLoadSceneAttachOnly(gltf) ==
  /\ SelectScene(gltf) # NULL
  /\ modelGroup' = Append(ClearGroup(modelGroup), SelectScene(gltf)[1])
  /\ loadingEl' = HideLoading(loadingEl)
  /\ lastOp' = "load"
  /\ UNCHANGED <<alerts, camera, controls, initialCameraState>>

\* the success callback when the file holds a scene: attach, normalise the
\* materials, frame the camera, hide the status element
OnLoadScene(gltf) ==
  /\ SelectScene(gltf) # NULL
  /\ LET group == Append(ClearGroup(modelGroup), TraverseModel(SelectScene(gltf)[1], env.three))
         framed == frameModel(camera[1], controls[1], group)
     IN /\ modelGroup' = group
        /\ camera' = Some(framed.camera)
        /\ controls' = Some(framed.controls)
        /\ initialCameraState' = Some(framed.initial)
  /\ loadingEl' = HideLoading(loadingEl)
  /\ lastOp' = "load"
  /\ UNCHANGED alerts

OnLoad(gltf) ==
  /\ pc = "running"
  /\ loader.inFlight > 0
  /\ loader' = [loader EXCEPT !.inFlight = @ - 1]
  /\ \/ OnLoadEmpty(gltf)
     \/ OnLoadScene(gltf)
  /\ UNCHANGED <<env, pc, listeners, rafPending, viewport, rendererSize, navCount>>
  /\ UNCHANGED mapVars

\* the error callback that frames the (empty) group after showing the error
OnErrorFramesGroup ==
  /\ pc = "running"
  /\ loader.inFlight > 0
  /\ loader' = [loader EXCEPT !.inFlight = @ - 1]
  /\ loadingEl' = ShowErrorEl(loadingEl, MsgLoadFailed)
  /\ alerts' = ShowErrorAlerts(loadingEl, alerts, MsgLoadFailed)
  /\ LET framed == frameModel(camera[1], controls[1], modelGroup)
     IN /\ camera' = Some(framed.camera)
        /\ controls' = Some(framed.controls)
        /\ initialCameraState' = Some(framed.initial)
  /\ lastOp' = "error"
  /\ UNCHANGED <<env, pc, modelGroup,
                 listeners, rafPending, viewport, rendererSize, navCount>>
  /\ UNCHANGED mapVars

OnError ==
  /\ pc = "running"
  /\ loader.inFlight > 0
  /\ loader' = [loader EXCEPT !.inFlight = @ - 1]
  /\ loadingEl' = ShowErrorEl(loadingEl, MsgLoadFailed)
  /\ alerts' = ShowErrorAlerts(loadingEl, alerts, MsgLoadFailed)
  /\ lastOp' = "error"
  /\ UNCHANGED <<env, pc, camera, controls, modelGroup, initialCameraState,
                 listeners, rafPending, viewport, rendererSize, navCount>>
  /\ UNCHANGED mapVars

----------------------------------------------------------------------------
(* User and host events *)

\* the window is resized; onWindowResize runs if init() registered it
Resize(size) ==
  /\ pc = "running"
  /\ size # viewport
  /\ viewport' = size
  /\ IF listeners.resize
       THEN /\ camera' = Some(onWindowResize(camera[1], size))
            /\ rendererSize' = Some(size)
       ELSE UNCHANGED <<camera, rendererSize>>
  /\ lastOp' = "resize"
  /\ UNCHANGED <<env, pc, controls, modelGroup, initialCameraState, loadingEl,
                 alerts, loader, listeners, rafPending, navCount>>
  /\ UNCHANGED mapVars

\* a reset click that also calls loadGLBModel() again
ResetClickReloads ==
  /\ pc = "running"
  /\ listeners.reset
  /\ LET r == resetView(camera[1], controls[1], initialCameraState)
     IN /\ camera' = Some(r.camera)
        /\ controls' = Some(r.controls)
  /\ loader' = [started |-> loader.started + 1, inFlight |-> loader.inFlight + 1]
  /\ lastOp' = "reset"
  /\ UNCHANGED <<env, pc, modelGroup, initialCameraState, loadingEl, alerts,
                 listeners, rafPending, viewport, rendererSize, navCount>>
  /\ UNCHANGED mapVars

\* a click on the reset button: resetView()
ResetClick ==
  /\ pc = "running"
  /\ listeners.reset
  /\ LET r == resetView(camera[1], controls[1], initialCameraState)
     IN /\ camera' = Some(r.camera)
        /\ controls' = Some(r.controls)
  /\ lastOp' = "reset"
  /\ UNCHANGED <<env, pc, modelGroup, initialCameraState, loadingEl, alerts,
                 loader, listeners, rafPending, viewport, rendererSize, navCount>>
  /\ UNCHANGED mapVars

\* a pointer drag handled by OrbitControls: the rotate delta grows, then update()
Rotate(d) ==
  /\ pc = "running"
  /\ controls # NULL
  /\ navCount < MaxNav
  /\ navCount' = navCount + 1
  /\ LET moved == [controls[1] EXCEPT !.sphericalDelta = @ + d]
     IN /\ camera' = Some(ControlsUpdateCamera(camera[1], moved))
        /\ controls' = Some(ControlsUpdateControls(moved))
  /\ lastOp' = "rotate"
  /\ UNCHANGED <<env, pc, modelGroup, initialCameraState, loadingEl, alerts,
                 loader, listeners, rafPending, viewport, rendererSize>>
  /\ UNCHANGED mapVars

\* a pan drag handled by OrbitControls: the pan offset grows, then update()
Pan(d) ==
  /\ pc = "running"
  /\ controls # NULL
  /\ navCount < MaxNav
  /\ navCount' = navCount + 1
  /\ LET moved == [controls[1] EXCEPT !.panOffset = @ + d]
     IN /\ camera' = Some(ControlsUpdateCamera(camera[1], moved))
        /\ controls' = Some(ControlsUpdateControls(moved))
  /\ lastOp' = "pan"
  /\ UNCHANGED <<env, pc, modelGroup, initialCameraState, loadingEl, alerts,
                 loader, listeners, rafPending, viewport, rendererSize>>
  /\ UNCHANGED mapVars

Next ==
  \/ Startup
  \/ Animate
  \/ \E total \in {0, ProgressTotal} : \E loaded \in 0..ProgressTotal : OnProgress(loaded, total)
  \/ \E gltf \in Gltfs : OnLoad(gltf)
  \/ OnError
  \/ \E size \in Sizes : Resize(size)
  \/ ResetClick
  \/ \E d \in NavDeltas : Rotate(d)
  \/ \E d \in NavDeltas : Pan(d)

Spec == Init /\ [][Next]_vars

\* the top-level script runs, and a scheduled frame callback is delivered
FairSpec == Spec /\ WF_vars(Startup) /\ WF_vars(Animate)

----------------------------------------------------------------------------
(* The material normaliser on every material: the viewer with all its      *)
(* capabilities, under each three.js build, loading a scene of one mesh    *)
(* whose material is any of Materials.                                     *)

MatEnvs == [hasOrbit : {TRUE}, hasLoader : {TRUE}, hasLoadingEl : {TRUE},
            hasResetBtn : {TRUE}, three : Builds]

MatGltfs ==
  {[scene |-> NULL, scenes |-> <<>>]}
  \cup {[scene |-> Some([box |-> NULL, meshes |-> <<(<<m>>)>>]), scenes |-> <<>>] :
          m \in Materials}

MatInit ==
  /\ env \in MatEnvs
  /\ pc = "boot"
  /\ camera = NULL
  /\ controls = NULL
  /\ modelGroup = <<>>
  /\ initialCameraState = NULL
  /\ loadingEl = Some([text |-> "", display |-> "", background |-> ""])
  /\ alerts = {}
  /\ loader = [started |-> 0, inFlight |-> 0]
  /\ listeners = [resize |-> FALSE, reset |-> FALSE]
  /\ rafPending = FALSE
  /\ viewport = <<800, 600>>
  /\ rendererSize = NULL
  /\ navCount = 0
  /\ lastOp = "none"
  /\ site = <<>>
  /\ MapNotStarted

MatNext ==
  \/ Startup
  \/ \E gltf \in MatGltfs : OnLoad(gltf)

MatSpec == MatInit /\ [][MatNext]_vars

----------------------------------------------------------------------------
(* The framing arithmetic on every input: the viewer as init() leaves it,  *)
(* with the camera's field of view and the loaded bounding box drawn from  *)
(* bounded sets.                                                           *)

Fovs == {45, 60, 90, 120}

BoxCorners == {Vec3(0, 0, 0), Vec3(-1000, -1000, -1000), Vec3(1000, 0, -3000)}
BoxDims == {0, 500, 2000, 100000}
BoxDepths == {0, 2000}

FrameBoxes ==
  {NULL} \cup
  {Box(lo, Vec3(lo.x + sx, lo.y + sy, lo.z + sz)) :
     lo \in BoxCorners, sx \in BoxDims, sy \in BoxDepths, sz \in BoxDepths}

FrameGltfs ==
  {[scene |-> NULL, scenes |-> <<>>]}
  \cup {[scene |-> Some([box |-> b, meshes |-> <<>>]), scenes |-> <<>>] : b \in FrameBoxes}

FrameEnv == [hasOrbit |-> TRUE, hasLoader |-> TRUE, hasLoadingEl |-> TRUE,
             hasResetBtn |-> TRUE, three |-> PageBuild]

FrameInit ==
  /\ env = FrameEnv
  /\ pc = "running"
  /\ \E fov \in Fovs : camera = Some([InitCamera(<<800, 600>>) EXCEPT !.fov = fov])
  /\ controls = InitControls(FrameEnv)
  /\ modelGroup = <<>>
  /\ initialCameraState = NULL
  /\ loadingEl = Some([text |-> "", display |-> "", background |-> ""])
  /\ alerts = {}
  /\ loader = [started |-> 1, inFlight |-> 1]
  /\ listeners = InitListeners(FrameEnv)
  /\ rafPending = TRUE
  /\ viewport = <<800, 600>>
  /\ rendererSize = Some(<<800, 600>>)
  /\ navCount = 0
  /\ lastOp = "init"
  /\ site = <<>>
  /\ MapNotStarted

FrameNext == \E gltf \in FrameGltfs : OnLoad(gltf)

FrameSpec == FrameInit /\ [][FrameNext]_vars

----------------------------------------------------------------------------
(* The 2D map page (main.js).  Attribute values are sequences of one-      *)
(* character strings; NaN is the empty optional.  Latitudes and longitudes *)
(* are fixed-point integers in millionths of a degree.                     *)

NaN == NULL

Micro == 10 ^ 6

Digits == <<"0", "1", "2", "3", "4", "5", "6", "7", "8", "9">>

IsDigit(c) == \E d \in 1..10 : Digits[d] = c
DigitValue(c) == (CHOOSE d \in 1..10 : Digits[d] = c) - 1

RECURSIVE TrimLeft(_)
TrimLeft(s) == IF s # <<>> /\ Head(s) = " " THEN TrimLeft(Tail(s)) ELSE s

RECURSIVE TakeDigits(_)
TakeDigits(s) ==
  IF s = <<>> \/ ~IsDigit(Head(s)) THEN <<>>
  ELSE <<Head(s)>> \o TakeDigits(Tail(s))

RECURSIVE DigitsValue(_, _)
DigitsValue(ds, acc) ==
  IF ds = <<>> THEN acc ELSE DigitsValue(Tail(ds), acc * 10 + DigitValue(Head(ds)))

\* the text after leading blanks and an optional sign, and whether the sign is -
Unsigned(s) ==
  LET t == TrimLeft(s)
  IN IF t # <<>> /\ Head(t) \in {"-", "+"} THEN Tail(t) ELSE t

IsNegative(s) == LET t == TrimLeft(s) IN t # <<>> /\ Head(t) = "-"

\* parseInt(s, 10): the leading decimal digits, NaN when there is none
\* (getAttribute gives null for a missing attribute, which parses to NaN as
\* the empty text does)
ParseInt(s) ==
  LET ds == TakeDigits(Unsigned(s))
  IN IF ds = <<>> THEN NaN
     ELSE Some(IF IsNegative(s) THEN 0 - DigitsValue(ds, 0) ELSE DigitsValue(ds, 0))

\* the first six fraction digits as millionths
FractionMicro(ds) ==
  LET kept == SubSeq(ds, 1, IF Len(ds) < 6 THEN Len(ds) ELSE 6)
  IN DigitsValue(kept, 0) * 10 ^ (6 - Len(kept))

\* parseFloat(s) for decimal notation: digits, then optionally a point and
\* digits; NaN when neither part has a digit
ParseFloat(s) ==
  LET body == Unsigned(s)
      whole == TakeDigits(body)
      rest == SubSeq(body, Len(whole) + 1, Len(body))
      fraction == IF rest # <<>> /\ Head(rest) = "." THEN TakeDigits(Tail(rest)) ELSE <<>>
      value == DigitsValue(whole, 0) * Micro + FractionMicro(fraction)
  IN IF whole = <<>> /\ fraction = <<>> THEN NaN
     ELSE Some(IF IsNegative(s) THEN 0 - value ELSE value)

\* L.latLng(lat, lng) throws 'Invalid LatLng object' when either is NaN
LatLngThrows(lat, lng) == lat = NaN \/ lng = NaN
LatLng(lat, lng) == [lat |-> lat[1], lng |-> lng[1]]

Min2(a, b) == IF a <= b THEN a ELSE b

\* L.latLngBounds(a, b): the smallest box holding both corners
LatLngBounds(a, b) ==
  [sw |-> [lat |-> Min2(a.lat, b.lat), lng |-> Min2(a.lng, b.lng)],
   ne |-> [lat |-> Max2(a.lat, b.lat), lng |-> Max2(a.lng, b.lng)]]

\* bounds.getCenter()
GetCenter(b) ==
  [lat |-> Div(b.sw.lat + b.ne.lat, 2), lng |-> Div(b.sw.lng + b.ne.lng, 2)]

\* Math.min(...orders), Math.max(...orders) of a non-empty list
RECURSIVE SeqMin(_)
SeqMin(s) == IF Len(s) = 1 THEN s[1] ELSE Min2(s[1], SeqMin(Tail(s)))

RECURSIVE SeqMax(_)
SeqMax(s) == IF Len(s) = 1 THEN s[1] ELSE Max2(s[1], SeqMax(Tail(s)))

tryPaths == <<"Kjellberg-orthophoto_tiles/tilemapresource.xml",
              "Kjellberg-dsm_tiles/tilemapresource.xml">>

\* the bounds the catch block falls back to: one point
FallbackBounds ==
  LatLngBounds([lat |-> -17533231, lng |-> 145603313],
               [lat |-> -17533231, lng |-> 145603313])

\* const bbox = xml.querySelector('BoundingBox'); if (bbox) { ... }
\* threw: L.latLng rejected a NaN coordinate
ParseBounds(doc) ==
  IF doc.bbox = NULL THEN [threw |-> FALSE, bounds |-> NULL]
  ELSE LET minx == ParseFloat(doc.bbox[1].minx)
           miny == ParseFloat(doc.bbox[1].miny)
           maxx == ParseFloat(doc.bbox[1].maxx)
           maxy == ParseFloat(doc.bbox[1].maxy)
       IN IF LatLngThrows(miny, minx) \/ LatLngThrows(maxy, maxx)
            THEN [threw |-> TRUE, bounds |-> NULL]
            ELSE [threw |-> FALSE,
                  bounds |-> Some(LatLngBounds(LatLng(miny, minx), LatLng(maxy, maxx)))]

\* tileSets.map(ts => parseInt(ts.getAttribute('order'), 10)).filter(n => !isNaN(n))
TileOrders(doc) ==
  LET parsed == [i \in 1..Len(doc.orders) |-> ParseInt(doc.orders[i])]
      numeric == SelectSeq(parsed, LAMBDA n : n # NaN)
  IN [i \in 1..Len(numeric) |-> numeric[i][1]]

\* the try block after the loop (lines 111 to 134) and its catch block: the
\* values of bounds, minZoom and maxZoom when init() reaches the layers
ReadMetadata(x) ==
  LET fallback == [bounds |-> Some(FallbackBounds),
                   minZoom |-> FallbackMinZoom, maxZoom |-> FallbackMaxZoom]
  IN IF x = NULL THEN fallback
     ELSE IF ParseBounds(x[1]).threw THEN fallback
     ELSE LET orders == TileOrders(x[1])
          IN [bounds |-> ParseBounds(x[1]).bounds,
              minZoom |-> IF Len(orders) > 0 THEN SeqMin(orders) ELSE DefaultMinZoom,
              maxZoom |-> IF Len(orders) > 0 THEN SeqMax(orders) ELSE DefaultMaxZoom]

\* L.map('map', { center: bounds.getCenter(), zoom: 18, minZoom, maxZoom, ... });
\* reading getCenter of an undefined bounds throws a TypeError
CreateMapThrows(b) == b = NULL

CreateMap(b, lo, hi) ==
  [center |-> GetCenter(b[1]), zoom |-> MapZoom, minZoom |-> lo, maxZoom |-> hi]

\* BoundingBox elements: none, one with four decimal attributes, one whose
\* maxy attribute is missing, one with its corners swapped
BBoxes ==
  {NULL,
   Some([minx |-> <<"1", "4", "5", ".", "6">>, miny |-> <<"-", "1", "7", ".", "5", "4">>,
         maxx |-> <<"1", "4", "5", ".", "6", "1">>, maxy |-> <<"-", "1", "7", ".", "5", "3">>]),
   Some([minx |-> <<"1", "4", "5", ".", "6">>, miny |-> <<"-", "1", "7", ".", "5", "4">>,
         maxx |-> <<"1", "4", "5", ".", "6", "1">>, maxy |-> <<>>]),
   Some([minx |-> <<"1", "4", "6">>, miny |-> <<" ", "-", "1", "7">>,
         maxx |-> <<"1", "4", "5", ".", "5">>, maxy |-> <<"-", "1", "8">>])}

\* the order attributes of the TileSet elements: no element, one order, orders
\* out of sequence, a non-numeric order, a numeric one among missing ones
OrderLists ==
  {<<>>,
   << <<"1", "8">> >>,
   << <<"2", "0">>, <<"1", "6">>, <<"2", "3">> >>,
   << <<"x">> >>,
   << <<>>, <<"7", "p", "x">>, <<"-">> >>}

\* what parseFromString returns: a document with its BoundingBox and TileSets
\* (text that is not XML gives a document holding neither)
Docs == [bbox : BBoxes, orders : OrderLists]

\* what a path gives: fetch() rejects, the response is not ok, reading the
\* body rejects, or the body is a document
Outcomes ==
  {[kind |-> k, doc |-> NULL] : k \in {"rejected", "notOk", "bodyFailed"}}
  \cup {[kind |-> "ok", doc |-> Some(d)] : d \in Docs}

Sites == [1..Len(tryPaths) -> Outcomes]

MapInit ==
  /\ site \in Sites
  /\ MapNotStarted
  /\ env = FrameEnv
  /\ pc = "boot"
  /\ camera = NULL
  /\ controls = NULL
  /\ modelGroup = <<>>
  /\ initialCameraState = NULL
  /\ loadingEl = NULL
  /\ alerts = {}
  /\ loader = [started |-> 0, inFlight |-> 0]
  /\ listeners = [resize |-> FALSE, reset |-> FALSE]
  /\ rafPending = FALSE
  /\ viewport = <<800, 600>>
  /\ rendererSize = NULL
  /\ navCount = 0
  /\ lastOp = "none"

\* init().catch(...): init() runs up to its first await, the fetch of the
\* first path
MapStartup ==
  /\ mapPc = "boot"
  /\ mapPc' = "fetching"
  /\ tryIndex' = 1
  /\ fetched' = <<tryPaths[1]>>
  /\ xml' = NULL
  /\ bounds' = NULL
  /\ minZoom' = DefaultMinZoom
  /\ maxZoom' = DefaultMaxZoom
  /\ UNCHANGED <<site, map, viewerVars>>

\* the rest of init() once the loop has ended with x in xml: metadata or
\* fallback, then the map; init() returns, or throws at L.map
FinishInit(x) ==
  LET meta == ReadMetadata(x)
  IN /\ xml' = x
     /\ bounds' = meta.bounds
     /\ minZoom' = meta.minZoom
     /\ maxZoom' = meta.maxZoom
     /\ IF CreateMapThrows(meta.bounds)
          THEN mapPc' = "rejected" /\ map' = NULL
          ELSE mapPc' = "created"
               /\ map' = Some(CreateMap(meta.bounds, meta.minZoom, meta.maxZoom))
     /\ UNCHANGED <<tryIndex, fetched>>

\* catch (e) { /* try next path */ }: the next fetch, or the end of the loop
\* with xml still null
TryNextPath ==
  IF tryIndex < Len(tryPaths)
    THEN /\ mapPc' = "fetching"
         /\ tryIndex' = tryIndex + 1
         /\ fetched' = Append(fetched, tryPaths[tryIndex + 1])
         /\ UNCHANGED <<xml, bounds, minZoom, maxZoom, map>>
    ELSE FinishInit(NULL)

\* await fetch(p) settles, without the check of resp.ok: only a rejection
\* goes to the inner catch
FetchSettledIgnoresStatus ==
  /\ mapPc = "fetching"
  /\ IF site[tryIndex].kind = "rejected"
       THEN TryNextPath
       ELSE /\ mapPc' = "reading"
            /\ UNCHANGED <<tryIndex, fetched, xml, bounds, minZoom, maxZoom, map>>
  /\ UNCHANGED <<site, viewerVars>>

\* await fetch(p) settles: a rejection or a response that is not ok throws
\* into the inner catch; otherwise init() awaits resp.text()
FetchSettled ==
  /\ mapPc = "fetching"
  /\ IF site[tryIndex].kind \in {"rejected", "notOk"}
       THEN TryNextPath
       ELSE /\ mapPc' = "reading"
            /\ UNCHANGED <<tryIndex, fetched, xml, bounds, minZoom, maxZoom, map>>
  /\ UNCHANGED <<site, viewerVars>>

\* await resp.text() settles: a rejection goes to the inner catch; otherwise
\* the text is parsed, the loop breaks and init() runs to its end
TextSettled ==
  /\ mapPc = "reading"
  /\ IF site[tryIndex].kind = "bodyFailed"
       THEN TryNextPath
       ELSE FinishInit(site[tryIndex].doc)
  /\ UNCHANGED <<site, viewerVars>>

MapNext ==
  \/ MapStartup
  \/ FetchSettled
  \/ TextSettled

MapSpec == MapInit /\ [][MapNext]_vars

----------------------------------------------------------------------------
(* Properties *)

\* the distance the last framing put between the camera and the target
LoadedDistance == initialCameraState[1].position.z - initialCameraState[1].target.z

\* C1: after a successful load, resetView() leaves the live camera position
\* and the orbit target equal to the values frameModel saved, whatever
\* navigation, frames and resizes came in between.
C1_ResetRestoresInitialPose ==
  (lastOp = "reset" /\ initialCameraState # NULL) =>
    /\ camera[1].position = initialCameraState[1].position
    /\ controls[1].target = initialCameraState[1].target

\* C2: while no initial state is saved (before load success: loading, failed
\* or empty scene), a reset click changes neither the camera (position,
\* near, far, aspect) nor the controls, and reports no error.
C2_ResetBeforeLoadIsNoOp ==
  [][(lastOp' = "reset" /\ initialCameraState = NULL) =>
       /\ camera' = camera
       /\ controls' = controls
       /\ initialCameraState' = initialCameraState
       /\ loadingEl' = loadingEl
       /\ alerts' = alerts]_vars

C2_Witness ==
  /\ lastOp = "reset"
  /\ initialCameraState = NULL
  /\ loader.inFlight > 0
  /\ controls[1].sphericalDelta > Div(100, DampingPct)

C4_MissingCapabilityAbortsInit ==
  (pc = "running" /\ ~(env.hasOrbit /\ env.hasLoader)) =>
    /\ ErrorShown(IF ~env.hasOrbit THEN MsgNoOrbit ELSE MsgNoLoader)
    /\ loader.started = 0
    /\ listeners = [resize |-> FALSE, reset |-> FALSE]

\* C5: once the script has run, a frame callback is scheduled in every
\* state, whatever the load state, and under fair delivery of frame
\* callbacks a frame is rendered again and again.
C5_RenderLoopKeepsRunning ==
  /\ [](pc = "running" => rafPending)
  /\ []<>(lastOp = "animate")

C5_Witness ==
  /\ lastOp = "animate"
  /\ loader.started = 1
  /\ loader.inFlight = 0
  /\ \E msg \in {MsgLoadFailed, MsgNoScene} : ErrorShown(msg)

\* C6: framing a bounding box of zero size puts the camera at least 0.5
\* (Offset) in front of the box's centre along z, with 0 < near < far.
C6_DegenerateBoxKeepsDistance ==
  (initialCameraState # NULL /\ MaxDim(modelGroup) = 0) =>
    LET center == BoxCenter(GroupBox(modelGroup)) IN
      /\ LoadedDistance >= Offset
      /\ LoadedDistance > 0
      /\ camera[1].position = Vec3(center.x, center.y, center.z + LoadedDistance)
      /\ 0 < camera[1].near
      /\ camera[1].near < camera[1].far

C6_Witness ==
  /\ initialCameraState # NULL
  /\ modelGroup[1].box = Box(Vec3(1000, 0, -3000), Vec3(1000, 0, -3000))
  /\ camera[1].position.z = Offset - 3000

\* C7: for maxDim > 0 the framing distance is (maxDim / (2 tan(fov/2))) * 1.5
\* + 0.5 (up to the two truncations of the fixed-point arithmetic), and at
\* the same fov a smaller maxDim gives a smaller distance, a larger one a
\* larger distance.
C7_DistanceFormulaMonotone ==
  (initialCameraState # NULL /\ MaxDim(modelGroup) > 0) =>
    LET m == MaxDim(modelGroup)
        fov == camera[1].fov
        t == TanHalfFov(fov)
        dd == LoadedDistance - Offset
    IN /\ 2 * 10 * t * dd <= MarginTenths * Scale * m
       /\ MarginTenths * Scale * m < 2 * 10 * t * dd + 5 * 10 * t
       /\ \A m2 \in BoxDims :
            /\ (0 < m2 /\ m2 < m) => FrameDistance(m2, fov) < LoadedDistance
            /\ m < m2 => LoadedDistance < FrameDistance(m2, fov)

C7_Witness ==
  /\ initialCameraState # NULL
  /\ camera[1].fov = 45
  /\ modelGroup[1].box = Box(Vec3(-1000, -1000, -1000), Vec3(1000, 1000, 1000))
  /\ LoadedDistance \in 4121..4122

\* C8: once a load has succeeded, near = max(0.01, distance / 1000) and
\* far = 100 * distance for the distance of that framing, and 0 < near < far.
C8_NearFarFromDistance ==
  initialCameraState # NULL =>
    /\ camera[1].near = Max2(NearMin, LoadedDistance \div NearDivisor)
    /\ camera[1].far = FarFactor * LoadedDistance
    /\ 0 < camera[1].near
    /\ camera[1].near < camera[1].far

C8_Witness ==
  /\ initialCameraState # NULL
  /\ camera[1].near > NearMin
  /\ navCount > 0
  /\ lastOp = "resize"

\* C9: a resize handled by onWindowResize sets aspect to w / h (truncated)
\* and leaves fov, near, far, the camera position, the controls and the
\* initial state unchanged.
C9_ResizeSetsAspectOnly ==
  [][(lastOp' = "resize" /\ listeners.resize) =>
       /\ camera'[1].aspect * viewport'[2] <= viewport'[1] * Scale
       /\ viewport'[1] * Scale < (camera'[1].aspect + 1) * viewport'[2]
       /\ camera'[1].fov = camera[1].fov
       /\ camera'[1].near = camera[1].near
       /\ camera'[1].far = camera[1].far
       /\ camera'[1].position = camera[1].position
       /\ controls' = controls
       /\ initialCameraState' = initialCameraState]_vars

C9_Witness ==
  /\ lastOp = "resize"
  /\ listeners.resize
  /\ initialCameraState # NULL
  /\ viewport = <<300, 400>>
  /\ camera[1].aspect = 750

\* C10: normalising the materials of a normalised scene changes nothing:
\* adjustMaterial applied twice gives the tags, encodings, flipY and
\* needsUpdate that it gives applied once.
C10_NormalizerIdempotent ==
  \A i \in 1..Len(modelGroup) :
    TraverseModel(modelGroup[i], env.three) = modelGroup[i]

C10_Witness ==
  /\ lastOp = "load"
  /\ Len(modelGroup) = 1
  /\ LET mat == modelGroup[1].meshes[1][1]
     IN /\ mat.map # NULL /\ mat.emissiveMap # NULL /\ mat.lightMap # NULL
        /\ mat.map[1].colorSpace = "srgb"
        /\ ~mat.emissiveMap[1].hasColorSpace /\ mat.emissiveMap[1].hasEncoding
        /\ ~mat.lightMap[1].hasColorSpace /\ ~mat.lightMap[1].hasEncoding
        /\ mat.needsUpdate

\* a present slot carries the sRGB tag on the property its texture supports
SlotTaggedSRGB(slot) ==
  slot = NULL \/
    IF slot[1].hasColorSpace THEN slot[1].colorSpace = "srgb"
    ELSE slot[1].hasEncoding => slot[1].encoding = "sRGBEncoding"

\* C11: every material of the loaded scene has each present slot (base
\* colour, emissive, light map) tagged sRGB, through colorSpace if the
\* texture has it and otherwise through encoding if it has that; the base
\* colour texture has flipY off; the material has needsUpdate set.
C11_NormalizedTags ==
  \A i \in 1..Len(modelGroup) :
    \A j \in 1..Len(modelGroup[i].meshes) :
      \A k \in 1..Len(modelGroup[i].meshes[j]) :
        LET mat == modelGroup[i].meshes[j][k]
        IN /\ SlotTaggedSRGB(mat.map)
           /\ SlotTaggedSRGB(mat.emissiveMap)
           /\ SlotTaggedSRGB(mat.lightMap)
           /\ mat.map # NULL => ~mat.map[1].flipY
           /\ mat.needsUpdate


\* the status text that reports loaded / total as a percentage
DeterminateText(loaded, total) ==
  "Loading 3D model... " \o ToString(ProgressPercent(loaded, total)) \o "%"

\* C12: every progress event with a known total (total > 0 and
\* 0 <= loaded <= total) leaves the status text showing loaded / total as a
\* percentage; the text without a percentage appears only for an unknown
\* total.
C12_ProgressDeterminate ==
  [][\A loaded \in 0..ProgressTotal :
       (OnProgress(loaded, ProgressTotal) /\ loadingEl # NULL) =>
         loadingEl'[1].text = DeterminateText(loaded, ProgressTotal)]_vars


\* the load attempt has ended: a success or error callback has run
LoadSettled == loader.started > 0 /\ loader.inFlight = 0

\* the load status the page shows: failed (an error text with the alert
\* styling, or an alert box), loaded (status element hidden; without a status
\* element, the model framed), loading otherwise
LoadStatus ==
  IF \E msg \in {MsgLoadFailed, MsgNoScene} : ErrorShown(msg) THEN "failed"
  ELSE IF loadingEl # NULL /\ loadingEl[1].display = "none" THEN "loaded"
  ELSE IF loadingEl = NULL /\ initialCameraState # NULL THEN "loaded"
  ELSE "loading"

C14_AtMostOneLoadInFlight ==
  /\ [](loader.inFlight <= 1 /\ loader.started <= 1)
  /\ [][loader'.started > loader.started => lastOp' = "init"]_vars

C14_Witness ==
  /\ loader.inFlight = 1
  /\ lastOp = "pan"
  /\ listeners.reset
  /\ viewport # <<800, 600>>


\* C15: in every state a frame callback can observe (every state between two
\* handlers), a model that is a child of modelGroup has all its materials
\* normalised and the camera framed on it: the initial state is saved and
\* near and far are those of the model's framing distance.
C15_AttachedOnlyNormalizedAndFramed ==
  modelGroup # <<>> =>
    /\ \A i \in 1..Len(modelGroup) :
         \A j \in 1..Len(modelGroup[i].meshes) :
           \A k \in 1..Len(modelGroup[i].meshes[j]) :
             LET mat == modelGroup[i].meshes[j][k]
             IN mat.needsUpdate /\ adjustMaterial(mat, env.three) = mat
    /\ initialCameraState # NULL
    /\ LET distance == FrameDistance(MaxDim(modelGroup), camera[1].fov)
       IN /\ camera[1].near = FrameNear(distance)
          /\ camera[1].far = FrameFar(distance)

C15_Witness ==
  /\ lastOp = "animate"
  /\ modelGroup # <<>>
  /\ Len(modelGroup[1].meshes) > 0
  /\ loader.inFlight = 0


\* C16: the initial state is saved only by a success callback that holds a
\* scene, and the step that saves it ends the pending load, leaves every
\* material of the attached scene normalised, the camera framed on that scene
\* (near, far and the z distance from the box centre are those of its
\* framing distance) and the saved state equal to the pose the framing
\* produced; while the load is pending nothing is attached, framed or saved.
C16_LoadNormalizeFrameSnapshot ==
  /\ [][initialCameraState' # initialCameraState =>
          /\ lastOp' = "load"
          /\ loader.inFlight = 1 /\ loader'.inFlight = 0
          /\ modelGroup = <<>> /\ Len(modelGroup') = 1
          /\ \A j \in 1..Len(modelGroup'[1].meshes) :
               \A k \in 1..Len(modelGroup'[1].meshes[j]) :
                 modelGroup'[1].meshes[j][k].needsUpdate
          /\ LET center == BoxCenter(GroupBox(modelGroup'))
                 distance == FrameDistance(MaxDim(modelGroup'), camera[1].fov)
             IN /\ camera'[1].near = FrameNear(distance)
                /\ camera'[1].far = FrameFar(distance)
                /\ camera'[1].position.y = center.y
                /\ camera'[1].position.z = center.z + distance
          /\ initialCameraState'[1].position = camera'[1].position
          /\ initialCameraState'[1].target = controls'[1].target]_vars
  /\ []((pc = "running" /\ loader.inFlight > 0) =>
          /\ modelGroup = <<>>
          /\ initialCameraState = NULL
          /\ camera[1].near = CameraNear
          /\ camera[1].far = CameraFar)

C16_Witness ==
  /\ lastOp = "load"
  /\ initialCameraState # NULL
  /\ Len(modelGroup[1].meshes) > 0
  /\ navCount > 0
  /\ initialCameraState[1].position = camera[1].position


\* C17: once the initial state is saved, no rotate or pan step, frame
\* callback, resize or reset click changes its position or target; only a
\* success callback that frames a scene writes it.
C17_InitialPoseIsValueSnapshot ==
  [][(initialCameraState # NULL /\ lastOp' # "load") =>
       /\ initialCameraState' # NULL
       /\ initialCameraState'[1].position = initialCameraState[1].position
       /\ initialCameraState'[1].target = initialCameraState[1].target]_vars

C17_Witness ==
  /\ initialCameraState # NULL
  /\ lastOp = "animate"
  /\ camera[1].position # initialCameraState[1].position
  /\ controls[1].target # initialCameraState[1].target


\* C18: initialCameraState holds at most one pose; it is non-null only when
\* the one load has succeeded with a scene that is the child of modelGroup,
\* and it is null before init(), while the load is pending, after a failed
\* or empty load, and when init() stopped for a missing capability.
C18_InitialPoseOnlyAfterSuccess ==
  /\ Len(initialCameraState) <= 1
  /\ initialCameraState # NULL =>
       /\ Len(modelGroup) = 1
       /\ loader.started = 1
       /\ loader.inFlight = 0
       /\ LoadStatus = "loaded"
  /\ (\/ pc = "boot"
      \/ loader.inFlight > 0
      \/ \E msg \in ErrorMessages : ErrorShown(msg)
      \/ ~InitLoadStarted(env)) => initialCameraState = NULL

C18_Witness ==
  /\ initialCameraState # NULL
  /\ Len(modelGroup) = 1
  /\ LoadStatus = "loaded"
  /\ lastOp = "reset"


\* init() has run to its end: it returned or it threw
MapInitEnded == mapPc \in {"created", "rejected"}

\* the document of the first path that gives one, if any
FirstDocument ==
  IF site[1].kind = "ok" THEN site[1].doc
  ELSE IF site[2].kind = "ok" THEN site[2].doc
  ELSE NULL

\* C19: the metadata paths are fetched in the fixed order orthophoto, DSM; the
\* DSM path is fetched only if the orthophoto fetch failed (rejected, not ok,
\* or its body could not be read), and then it is fetched; the document
\* parsed is that of the first path that gave one; when neither gives one,
\* bounds, minZoom and maxZoom are the fallback values and the map is
\* created with them.
C19_MetadataPathsInOrder ==
  /\ Len(fetched) <= 2
  /\ mapPc # "boot" =>
       fetched[1] = "Kjellberg-orthophoto_tiles/tilemapresource.xml"
  /\ Len(fetched) = 2 =>
       /\ fetched[2] = "Kjellberg-dsm_tiles/tilemapresource.xml"
       /\ site[1].kind # "ok"
  /\ MapInitEnded =>
       /\ xml = FirstDocument
       /\ site[1].kind # "ok" => Len(fetched) = 2
  /\ (MapInitEnded /\ FirstDocument = NULL) =>
       /\ bounds = Some(FallbackBounds)
       /\ minZoom = FallbackMinZoom
       /\ maxZoom = FallbackMaxZoom
       /\ mapPc = "created"
       /\ map = Some([center |-> [lat |-> -17533231, lng |-> 145603313],
                      zoom |-> MapZoom,
                      minZoom |-> FallbackMinZoom, maxZoom |-> FallbackMaxZoom])

C19_Witness ==
  /\ mapPc = "created"
  /\ Len(fetched) = 2
  /\ site[1].kind = "notOk"
  /\ site[2].kind = "ok"
  /\ xml = site[2].doc
  /\ bounds # Some(FallbackBounds)
  /\ minZoom = 16 /\ maxZoom = 23


\* C20: for every outcome of fetching and parsing the metadata, init()
\* reaches the end with bounds defined, minZoom <= maxZoom and the map
\* created: L.map does not throw.
C20_MapCreationHasBoundsAndZooms ==
  MapInitEnded =>
    /\ bounds # NULL
    /\ minZoom <= maxZoom
    /\ mapPc = "created"
    /\ map # NULL

====
